---- MODULE Spec2Model ----
(***************************************************************************)
(* The equilibrium price solver of the inelastic-housing OLG model         *)
(* (src/src/model.ts, function simulate) as a state machine.               *)
(*                                                                         *)
(* Numbers.  The source computes in IEEE doubles; here every amount of     *)
(* money is an integer number of model units, a division that is not by a  *)
(* power of two dividing its argument rounds down, and the comparison of   *)
(* two log-utilities is made exactly, on the products the logarithms are   *)
(* taken of (log is increasing), with e written as the fraction            *)
(* E_NUM / E_DEN.  Growth rates and beta are fractions <<num, den>>.       *)
(*                                                                         *)
(* Sizes.  The source's AGENTS_COUNT (1000), SIMULATION_STEPS (10),        *)
(* MAX_ITER (20) and the 15 bisection steps are replaced by the bounds     *)
(* MaxAgents, MaxHorizon, MaxIter and MaxBisect.                           *)
(***************************************************************************)
EXTENDS Integers, Sequences, FiniteSets, TLC

\* ------------------------------------------------------------- bounds
MaxAgents == 4
MaxHorizon == 4
MaxIter == 3
MaxBisect == 3

\* ---------------------------------------------------------- constants
AGENTS_COUNT == MaxAgents
SIMULATION_STEPS == MaxHorizon
MAX_ITER == MaxIter
BISECT_STEPS == MaxBisect
\* The generations reported: t = 0, 1, 2.
GENERATIONS == 3
\* Utility value of living in a house.
ALPHA == 1
\* maxDiff < 0.01: one model unit of money is 0.0025.
CONVERGENCE_TOL == 4
\* e, the base of Math.log, as a fraction (2721/1001 = 2.7182817...).
E_NUM == 2721
E_DEN == 1001

\* ------------------------------------------- exact products (no overflow)
\* A natural number as its digits in base BASE, lowest first, no leading
\* zero; <<>> is 0.  Factors stay below 2^19, so a digit times a factor plus
\* a carry stays below 2^31.
BASE == 2048

RECURSIVE Digits(_)
Digits(n) == IF n = 0 THEN <<>> ELSE <<n % BASE>> \o Digits(n \div BASE)

RECURSIVE MulCarry(_, _, _, _)
\* The digits of x * m from digit i on, c the carry into digit i; v is
\* digit i of x times m plus the carry, computed once.
MulCarry(x, m, i, c) ==
    IF i > Len(x) THEN Digits(c)
    ELSE [v \in {x[i] * m + c} |->
             <<v % BASE>> \o MulCarry(x, m, i + 1, v \div BASE)
         ][x[i] * m + c]

\* x * m, m a natural number below 2^19.
Times(x, m) == IF m = 0 \/ x = <<>> THEN <<>> ELSE MulCarry(x, m, 1, 0)

RECURSIVE GreaterFrom(_, _, _)
GreaterFrom(x, y, i) ==
    IF i = 0 THEN FALSE
    ELSE IF x[i] # y[i] THEN x[i] > y[i]
    ELSE GreaterFrom(x, y, i - 1)

\* x > y
Greater(x, y) ==
    IF Len(x) # Len(y) THEN Len(x) > Len(y) ELSE GreaterFrom(x, y, Len(x))

RECURSIVE ProductGreater(_, _, _, _, _)
\* a * fs[i] * ... * fs[Len(fs)] > b * gs[i] * ... * gs[Len(gs)], for
\* factors fs and gs of the same number.
ProductGreater(a, fs, b, gs, i) ==
    IF i > Len(fs) THEN Greater(a, b)
    ELSE \E a1 \in {Times(a, fs[i])} : \E b1 \in {Times(b, gs[i])} :
             ProductGreater(a1, fs, b1, gs, i + 1)

Max(a, b) == IF a >= b THEN a ELSE b
Min(a, b) == IF a <= b THEN a ELSE b
Abs(a) == IF a >= 0 THEN a ELSE -a

RECURSIVE Pow(_, _)
Pow(b, n) == IF n = 0 THEN 1 ELSE b * Pow(b, n - 1)

\* (1 + g)^t * x, rounded down, for a growth rate g = <<num, den>>.
Grow(x, g, t) == (x * Pow(g[2] + g[1], t)) \div Pow(g[2], t)

\* -------------------------------------------------------- the WTP solver
\* s_rent = beta * y / (1 + beta)
SRent(y, beta) == (beta[1] * y) \div (beta[1] + beta[2])

\* s_own = (beta * (y - P_guess) - P_next) / (1 + beta), clipped at 0
SOwn(y, P, Pn, beta) ==
    Max(0, (beta[1] * (y - P) - beta[2] * Pn) \div (beta[1] + beta[2]))

\* The factors of c_young^d * c_old^n * e^(ALPHA * d), beta = n / d.
Factors(c_young, c_old, e, beta) ==
    [i \in 1..(beta[2] + beta[1] + ALPHA * beta[2]) |->
        IF i <= beta[2] THEN c_young
        ELSE IF i <= beta[2] + beta[1] THEN c_old
        ELSE e]

\* u_own > u_rent, with
\*   u_own  = log(cy) + beta * log(co) + ALPHA
\*   u_rent = log(ry) + beta * log(ro)
\* taken to the power of beta's denominator:
\*   cy^d * co^n * e^(ALPHA * d) > ry^d * ro^n.
\* log of a negative number is NaN, and no comparison with NaN holds;
\* log(0) is -Infinity, and -Infinity > -Infinity does not hold;
\* with beta = 0, beta * log(0) = 0 * -Infinity is NaN.
OwnBetter(cy, co, ry, ro, beta) ==
    IF cy < 0 \/ co < 0 \/ ry < 0 \/ ro < 0 THEN FALSE
    ELSE IF beta[1] = 0 /\ (co = 0 \/ ro = 0) THEN FALSE
    ELSE \E own \in {Factors(cy, co, E_NUM, beta)} :
         \E rent \in {Factors(ry, ro, E_DEN, beta)} :
             ProductGreater(<<1>>, own, <<1>>, rent, 1)

\* The bracket the bisection starts from: [0, y].
BracketLow(y) == 0
BracketHigh(y) == y

RECURSIVE BisectLastTrial(_, _, _, _, _, _, _)
\* Mutant of Bisect: wtp follows every affordable trial price, also the
\* ones at which owning is not preferred.
BisectLastTrial(low, high, wtp, b, y, Pn, beta) ==
    IF b = 0 THEN wtp
    ELSE LET P_guess == (low + high) \div 2
             s_own == SOwn(y, P_guess, Pn, beta)
             s_rent == SRent(y, beta)
         IN  IF y - P_guess - s_own <= 0
             THEN BisectLastTrial(low, P_guess, wtp, b - 1, y, Pn, beta)
             ELSE IF OwnBetter(y - P_guess - s_own, s_own + Pn,
                               y - s_rent, s_rent, beta)
             THEN BisectLastTrial(P_guess, high, P_guess, b - 1, y, Pn, beta)
             ELSE BisectLastTrial(low, P_guess, P_guess, b - 1, y, Pn, beta)

RECURSIVE Bisect(_, _, _, _, _, _, _)
\* The loop body of the bisection, b steps left; the result is wtp.
Bisect(low, high, wtp, b, y, Pn, beta) ==
    IF b = 0 THEN wtp
    ELSE LET P_guess == (low + high) \div 2
             s_own == SOwn(y, P_guess, Pn, beta)
             s_rent == SRent(y, beta)
         IN  IF y - P_guess - s_own <= 0
             THEN Bisect(low, P_guess, wtp, b - 1, y, Pn, beta)
             ELSE IF OwnBetter(y - P_guess - s_own, s_own + Pn,
                               y - s_rent, s_rent, beta)
             THEN Bisect(P_guess, high, P_guess, b - 1, y, Pn, beta)
             ELSE Bisect(low, P_guess, wtp, b - 1, y, Pn, beta)

\* Mutant of WTP: the household pledges its resale proceeds too, so the
\* bisection runs over [0, y + P_next] on the resources y + P_next.
WTPWithResale(y, Pn, beta) ==
    Bisect(0, y + Pn, 0, BISECT_STEPS, y + Pn, Pn, beta)

WTP(y, Pn, beta) ==
    Bisect(BracketLow(y), BracketHigh(y), 0, BISECT_STEPS, y, Pn, beta)


\* ------------------------------------------------------- configurations
PopGrowthRates == {<<0, 1>>, <<1, 1>>}
TechGrowthRates == {<<0, 1>>, <<1, 1>>}
HousingGrowthRates == {<<0, 1>>, <<1, 1>>}
Inequalities == {0, 1}
Betas == {<<1, 2>>}
InitialTechs == {8}
InitialPops == {10}
InitialHousings == {1, 5, 10}

\* The configurations of the grid.
GridParams ==
    [popGrowthRate : PopGrowthRates, techGrowthRate : TechGrowthRates,
     housingGrowthRate : HousingGrowthRates, inequality : Inequalities,
     beta : Betas, initialTech : InitialTechs, initialPop : InitialPops,
     initialHousing : InitialHousings]

\* DEFAULT_PARAMS of the application: population growth 0.25, technology
\* growth 0.5, housing growth 0.05, beta 0.3, initial housing equal to the
\* initial population; technology and population in model units.
DEFAULT_PARAMS ==
    [popGrowthRate |-> <<1, 4>>, techGrowthRate |-> <<1, 2>>,
     housingGrowthRate |-> <<1, 20>>, inequality |-> 1, beta |-> <<3, 10>>,
     initialTech |-> 8, initialPop |-> 10, initialHousing |-> 10]

\* The defaults with housing growing at the rate of the population.
BalancedParams ==
    [DEFAULT_PARAMS EXCEPT !.housingGrowthRate = DEFAULT_PARAMS.popGrowthRate]

\* The defaults with beta = 0: the old do not consume out of savings.
ZeroBetaParams == [DEFAULT_PARAMS EXCEPT !.beta = <<0, 1>>]

\* The defaults with initialTech = 0: no household has any income.
NoIncomeParams == [DEFAULT_PARAMS EXCEPT !.initialTech = 0]

\* The defaults with forty times the population and the housing stock:
\* the heuristic initial price initialTech * initialPop * 0.1 is then far
\* above every income.
CrowdedParams ==
    [DEFAULT_PARAMS EXCEPT !.initialPop = 400, !.initialHousing = 400]

\* ModelParams
ModelParams ==
    GridParams \cup {DEFAULT_PARAMS, BalancedParams, ZeroBetaParams,
                     NoIncomeParams, CrowdedParams}

VARIABLES
    params,          \* the argument of simulate
    call,            \* 1: the first invocation, 2: the same invocation again
    firstResults,    \* what the first invocation returned
    pc,              \* where simulate is
    productivities,  \* the quantile draws, indexed 1..AGENTS_COUNT
    prices,          \* the price path, indexed 1..SIMULATION_STEPS (period t at t + 1)
    newPrices,       \* the copy an outer iteration writes
    iter,            \* outer iterations completed
    maxDiff,         \* largest |newPrices[t] - prices[t]| of the iteration so far
    t,               \* the next period of the inner loop, or the next generation
    cross,           \* the households of the period last priced, in index order
    wtps,            \* their WTPs, sorted descending
    housesAvailable, \* the units of the period last priced
    newPrice,        \* the price the market clearer proposed for it
    agents,          \* the aggregator's households, ranked, with their allocation
    results          \* the GenerationResult records pushed so far

vars == <<params, call, firstResults, pc, productivities, prices, newPrices,
          iter, maxDiff, t, cross, wtps, housesAvailable, newPrice, agents,
          results>>

\* ------------------------------------------------ the productivity sampler
\* Productivity 1 in model units.
PROD_UNIT == 14

\* a_i = exp(sigma * probit((i + 0.5) / AGENTS_COUNT)), i = 0..AGENTS_COUNT-1,
\* to first order: the quantiles z_i are evenly spaced and symmetric about 0,
\* and exp(sigma * z) is 1 + sigma * z.  The draws increase with i when
\* sigma > 0 and are all equal when sigma = 0.
Productivity(i, sigma) == PROD_UNIT + sigma * (2 * i + 1 - AGENTS_COUNT)

Productivities(sigma) == [n \in 1..AGENTS_COUNT |-> Productivity(n - 1, sigma)]

\* ------------------------------------------------------ period aggregates
\* A_t = initialTech * (1 + techGrowthRate)^t
Tech(p, period) == Grow(p.initialTech, p.techGrowthRate, period)
\* N_t = initialPop * (1 + popGrowthRate)^t
Pop(p, period) == Grow(p.initialPop, p.popGrowthRate, period)
\* H_t = initialHousing * (1 + housingGrowthRate)^t
Housing(p, period) == Grow(p.initialHousing, p.housingGrowthRate, period)

\* Mutant of SupplyFraction: H and N taken once, before the loop over
\* the periods, so that the ratio never moves from H_0 / N_0.
SupplyFractionInitial(p, period) == <<p.initialHousing, p.initialPop>>

\* Mutant of SupplyFraction: the housing stock grown at techGrowthRate.
SupplyFractionTechRate(p, period) ==
    <<p.initialHousing * Pow(p.techGrowthRate[2] + p.techGrowthRate[1], period)
                       * Pow(p.popGrowthRate[2], period),
      p.initialPop * Pow(p.popGrowthRate[2] + p.popGrowthRate[1], period)
                   * Pow(p.techGrowthRate[2], period)>>

\* H_t / N_t as an exact fraction <<numerator, denominator>>.
SupplyFraction(p, period) ==
    <<p.initialHousing * Pow(p.housingGrowthRate[2] + p.housingGrowthRate[1], period)
                       * Pow(p.popGrowthRate[2], period),
      p.initialPop * Pow(p.popGrowthRate[2] + p.popGrowthRate[1], period)
                   * Pow(p.housingGrowthRate[2], period)>>

\* floor(min(1.0, H / N) * AGENTS_COUNT) for the fraction f = <<H, N>>;
\* x / 0 is Infinity for x > 0, and 0 / 0 is NaN, which no comparison holds of.
Units(f) ==
    IF f[2] = 0 THEN (IF f[1] > 0 THEN AGENTS_COUNT ELSE 0)
    ELSE IF f[1] >= f[2] THEN AGENTS_COUNT
    ELSE (f[1] * AGENTS_COUNT) \div f[2]

\* housesAvailable (numOwners in the aggregator) of a period
HousesAvailable(p, period) == Units(SupplyFraction(p, period))

\* y = A_t * productivities[i]
Income(p, period, prods, n) == Tech(p, period) * prods[n]

\* The households of a period with their WTP against P_next, in index order.
CrossSection(p, period, prods, Pn) ==
    [n \in 1..AGENTS_COUNT |->
        LET y == Income(p, period, prods, n)
        IN  [i |-> n - 1, y |-> y, wtp |-> WTP(y, Pn, p.beta)]]

\* ------------------------------------------------------ the market clearer
\* The place element n of s takes when s is sorted by the keys key, highest
\* first; the sort is stable, equal keys keep their order.
RankDesc(key, n) ==
    1 + Cardinality({m \in DOMAIN key : key[m] > key[n]})
      + Cardinality({m \in DOMAIN key : m < n /\ key[m] = key[n]})

\* The same with the lowest key first.
RankAsc(key, n) ==
    1 + Cardinality({m \in DOMAIN key : key[m] < key[n]})
      + Cardinality({m \in DOMAIN key : m < n /\ key[m] = key[n]})

\* Mutant of SortDesc: the comparator the wrong way round, (a, b) => a - b.
SortAsc(s) ==
    [r \in DOMAIN s |-> s[CHOOSE n \in DOMAIN s : RankAsc(s, n) = r]]

\* wtps.sort((a, b) => b - a)
SortDesc(s) ==
    [r \in DOMAIN s |-> s[CHOOSE n \in DOMAIN s : RankDesc(s, n) = r]]

\* Mutant of ClearingPrice: the (k+1)-th highest bid (the Vickrey
\* convention), index k and not k - 1.
ClearingPriceNextBid(w, k) ==
    IF k > 0
    THEN LET priceIndex == IF k >= Len(w) THEN Len(w) - 1 ELSE k
         IN  w[priceIndex + 1]
    ELSE 0

\* Mutant of ClearingPrice: no test of k > 0, the index clamped into the
\* array at both ends.
ClearingPriceNoGuard(w, k) ==
    LET priceIndex == IF k - 1 >= Len(w) THEN Len(w) - 1 ELSE Max(k - 1, 0)
    IN  w[priceIndex + 1]

\* Mutant of ClearingPrice: the rank counted from the lowest WTP.
ClearingPriceFromBelow(w, k) ==
    IF k > 0
    THEN LET priceIndex == IF k - 1 >= Len(w) THEN Len(w) - 1 ELSE k - 1
         IN  w[Len(w) - priceIndex]
    ELSE 0

\* The price of k units among the descending WTPs w.
ClearingPrice(w, k) ==
    IF k > 0
    THEN LET priceIndex == IF k - 1 >= Len(w) THEN Len(w) - 1 ELSE k - 1
         IN  w[priceIndex + 1]
    ELSE 0

\* -------------------------------------------------------------- simulate
Init ==
    /\ params \in ModelParams
    /\ call = 1
    /\ firstResults = <<>>
    /\ pc = "start"
    /\ productivities = <<>>
    /\ prices = <<>>
    /\ newPrices = <<>>
    /\ iter = 0
    /\ maxDiff = 0
    /\ t = 0
    /\ cross = <<>>
    /\ wtps = <<>>
    /\ housesAvailable = 0
    /\ newPrice = 0
    /\ agents = <<>>
    /\ results = <<>>

\* The heuristic start of every price: initialTech * initialPop * 0.1.
InitialPrice(p) == (p.initialTech * p.initialPop) \div 10

\* Mutant of Start: the price path is kept in a variable that outlives the
\* call, and is initialised only when it is still empty.
StartStale ==
    /\ pc = "start"
    /\ productivities' = Productivities(params.inequality)
    /\ prices' = IF prices = <<>>
                 THEN [n \in 1..SIMULATION_STEPS |-> InitialPrice(params)]
                 ELSE prices
    /\ newPrices' = <<>>
    /\ iter' = 0
    /\ maxDiff' = 0
    /\ t' = 0
    /\ cross' = <<>>
    /\ wtps' = <<>>
    /\ housesAvailable' = 0
    /\ newPrice' = 0
    /\ agents' = <<>>
    /\ results' = <<>>
    /\ pc' = "iterate"
    /\ UNCHANGED <<params, call, firstResults>>

\* Steps 1 and 2: the draws and the initial price path.
Start ==
    /\ pc = "start"
    /\ productivities' = Productivities(params.inequality)
    /\ prices' = [n \in 1..SIMULATION_STEPS |-> InitialPrice(params)]
    /\ newPrices' = <<>>
    /\ iter' = 0
    /\ maxDiff' = 0
    /\ t' = 0
    /\ cross' = <<>>
    /\ wtps' = <<>>
    /\ housesAvailable' = 0
    /\ newPrice' = 0
    /\ agents' = <<>>
    /\ results' = <<>>
    /\ pc' = "iterate"
    /\ UNCHANGED <<params, call, firstResults>>

\* Mutant of TerminalPrice: the terminal price damped like the others,
\* 0.5 * prices[lastT] + 0.5 * the extrapolation.
TerminalPriceDamped(p, pr) ==
    (pr[SIMULATION_STEPS]
        + Grow(pr[SIMULATION_STEPS - 1], p.techGrowthRate, 1)) \div 2

\* newPrices[lastT] = prices[lastT - 1] * (1 + techGrowthRate)
TerminalPrice(p, pr) == Grow(pr[SIMULATION_STEPS - 1], p.techGrowthRate, 1)

\* The head of an outer iteration: maxDiff, the copy of the path and the
\* terminal condition.
BeginIteration ==
    /\ pc = "iterate"
    /\ iter < MAX_ITER
    /\ maxDiff' = 0
    /\ newPrices' = [prices EXCEPT ![SIMULATION_STEPS] = TerminalPrice(params, prices)]
    /\ t' = 0
    /\ pc' = "period"
    /\ UNCHANGED <<params, call, firstResults, productivities, prices, iter,
                   cross, wtps, housesAvailable, newPrice, agents, results>>

\* Mutant of Damped: the step is extrapolated instead of damped,
\* 1.5 * newPrice - 0.5 * prices[t].
DampedExtrapolated(old, new) == (3 * new - old) \div 2

\* Damping: 0.5 * prices[t] + 0.5 * newPrice
Damped(old, new) == (old + new) \div 2

\* Mutant of SolvePeriod: P_next is read from the path being written,
\* newPrices[t+1], not from the path of the previous iteration.
SolvePeriodInPlace ==
    /\ pc = "period"
    /\ t < SIMULATION_STEPS - 1
    /\ \E cs \in {CrossSection(params, t, productivities, newPrices[t + 2])} :
       \E w \in {SortDesc([n \in 1..AGENTS_COUNT |-> cs[n].wtp])} :
       \E np \in {ClearingPrice(w, HousesAvailable(params, t))} :
       \E blended \in {Damped(prices[t + 1], np)} :
           /\ cross' = cs
           /\ wtps' = w
           /\ housesAvailable' = HousesAvailable(params, t)
           /\ newPrice' = np
           /\ newPrices' = [newPrices EXCEPT ![t + 1] = blended]
           /\ maxDiff' = Max(maxDiff, Abs(blended - prices[t + 1]))
    /\ t' = t + 1
    /\ UNCHANGED <<params, call, firstResults, pc, productivities, prices,
                   iter, agents, results>>

\* Mutant of SolvePeriod: the incomes are computed in place,
\* productivities[i] *= A_t, so the draws of the next period are the
\* incomes of this one.
SolvePeriodScalingDraws ==
    /\ pc = "period"
    /\ t < SIMULATION_STEPS - 1
    /\ \E cs \in {CrossSection(params, t, productivities, prices[t + 2])} :
       \E w \in {SortDesc([n \in 1..AGENTS_COUNT |-> cs[n].wtp])} :
       \E np \in {ClearingPrice(w, HousesAvailable(params, t))} :
       \E blended \in {Damped(prices[t + 1], np)} :
           /\ cross' = cs
           /\ productivities' = [n \in 1..AGENTS_COUNT |-> cs[n].y]
           /\ wtps' = w
           /\ housesAvailable' = HousesAvailable(params, t)
           /\ newPrice' = np
           /\ newPrices' = [newPrices EXCEPT ![t + 1] = blended]
           /\ maxDiff' = Max(maxDiff, Abs(blended - prices[t + 1]))
    /\ t' = t + 1
    /\ UNCHANGED <<params, call, firstResults, pc, prices, iter, agents,
                   results>>

\* One pass of the inner loop: period t of the horizon.
SolvePeriod ==
    /\ pc = "period"
    /\ t < SIMULATION_STEPS - 1
    /\ \E cs \in {CrossSection(params, t, productivities, prices[t + 2])} :
       \E w \in {SortDesc([n \in 1..AGENTS_COUNT |-> cs[n].wtp])} :
       \E np \in {ClearingPrice(w, HousesAvailable(params, t))} :
       \E blended \in {Damped(prices[t + 1], np)} :
           /\ cross' = cs
           /\ wtps' = w
           /\ housesAvailable' = HousesAvailable(params, t)
           /\ newPrice' = np
           /\ newPrices' = [newPrices EXCEPT ![t + 1] = blended]
           /\ maxDiff' = Max(maxDiff, Abs(blended - prices[t + 1]))
    /\ t' = t + 1
    /\ UNCHANGED <<params, call, firstResults, pc, productivities, prices,
                   iter, agents, results>>

\* prices = newPrices; if (maxDiff < 0.01) break
Converged ==
    /\ pc = "period"
    /\ t = SIMULATION_STEPS - 1
    /\ maxDiff < CONVERGENCE_TOL
    /\ prices' = newPrices
    /\ iter' = iter + 1
    /\ t' = 0
    /\ pc' = "aggregate"
    /\ UNCHANGED <<params, call, firstResults, productivities, newPrices,
                   maxDiff, cross, wtps, housesAvailable, newPrice, agents,
                   results>>

\* prices = newPrices; iter++ and the loop goes on
NextIteration ==
    /\ pc = "period"
    /\ t = SIMULATION_STEPS - 1
    /\ ~(maxDiff < CONVERGENCE_TOL)
    /\ iter + 1 < MAX_ITER
    /\ prices' = newPrices
    /\ iter' = iter + 1
    /\ pc' = "iterate"
    /\ UNCHANGED <<params, call, firstResults, productivities, newPrices,
                   maxDiff, t, cross, wtps, housesAvailable, newPrice, agents,
                   results>>

\* Mutant of BudgetExhausted: a budget spent without convergence is fatal,
\* simulate throws and returns nothing.
BudgetExhaustedThrows ==
    /\ pc = "period"
    /\ t = SIMULATION_STEPS - 1
    /\ ~(maxDiff < CONVERGENCE_TOL)
    /\ ~(iter + 1 < MAX_ITER)
    /\ iter' = iter + 1
    /\ pc' = "error"
    /\ UNCHANGED <<params, call, firstResults, productivities, prices,
                   newPrices, maxDiff, t, cross, wtps, housesAvailable,
                   newPrice, agents, results>>

\* prices = newPrices; iter++ reaches MAX_ITER and the loop ends
BudgetExhausted ==
    /\ pc = "period"
    /\ t = SIMULATION_STEPS - 1
    /\ ~(maxDiff < CONVERGENCE_TOL)
    /\ ~(iter + 1 < MAX_ITER)
    /\ prices' = newPrices
    /\ iter' = iter + 1
    /\ t' = 0
    /\ pc' = "aggregate"
    /\ UNCHANGED <<params, call, firstResults, productivities, newPrices,
                   maxDiff, cross, wtps, housesAvailable, newPrice, agents,
                   results>>

\* ---------------------------------------------------------- the aggregator
\* agents.sort((a, b) => b.wtp - a.wtp)
SortAgents(s) ==
    [r \in DOMAIN s |->
        s[CHOOSE n \in DOMAIN s :
            RankDesc([m \in DOMAIN s |-> s[m].wtp], n) = r]]

\* Mutant of IsOwner: i <= numOwners.
IsOwnerInclusive(i, numOwners) == i <= numOwners

\* const isOwner = i < numOwners, for the agent at rank i (from 0)
IsOwner(i, numOwners) == i < numOwners

\* Mutant of Allocate: the owner's old-age consumption leaves out the sale
\* of the house, c_old = s.
AllocateNoResale(a, i, numOwners, P_t, P_next, beta) ==
    IF IsOwner(i, numOwners)
    THEN LET s == SOwn(a.y, P_t, P_next, beta)
         IN  [i |-> a.i, y |-> a.y, wtp |-> a.wtp, isOwner |-> TRUE,
              c_young |-> a.y - P_t - s, c_old |-> s]
    ELSE LET s == SRent(a.y, beta)
         IN  [i |-> a.i, y |-> a.y, wtp |-> a.wtp, isOwner |-> FALSE,
              c_young |-> a.y - s, c_old |-> s]

\* Mutant of Allocate: a household owns only if it is ranked within the
\* supply and its WTP covers the price, isOwner = i < numOwners && wtp >= P_t.
AllocateWilling(a, i, numOwners, P_t, P_next, beta) ==
    IF IsOwner(i, numOwners) /\ a.wtp >= P_t
    THEN LET s == SOwn(a.y, P_t, P_next, beta)
         IN  [i |-> a.i, y |-> a.y, wtp |-> a.wtp, isOwner |-> TRUE,
              c_young |-> a.y - P_t - s, c_old |-> s + P_next]
    ELSE LET s == SRent(a.y, beta)
         IN  [i |-> a.i, y |-> a.y, wtp |-> a.wtp, isOwner |-> FALSE,
              c_young |-> a.y - s, c_old |-> s]

\* The agent at rank i with its tenure and consumption at prices P_t, P_next.
Allocate(a, i, numOwners, P_t, P_next, beta) ==
    IF IsOwner(i, numOwners)
    THEN LET s == SOwn(a.y, P_t, P_next, beta)
         IN  [i |-> a.i, y |-> a.y, wtp |-> a.wtp, isOwner |-> TRUE,
              c_young |-> a.y - P_t - s, c_old |-> s + P_next]
    ELSE LET s == SRent(a.y, beta)
         IN  [i |-> a.i, y |-> a.y, wtp |-> a.wtp, isOwner |-> FALSE,
              c_young |-> a.y - s, c_old |-> s]

OwnerCount(as) == Cardinality({n \in DOMAIN as : as[n].isOwner})

\* u = log(c_young) + beta * log(c_old) (+ ALPHA for an owner), kept as the
\* consumptions it is the utility of.
Utility(a) == [c_young |-> a.c_young, c_old |-> a.c_old, house |-> a.isOwner]

\* The utilities of the owners (owner = TRUE) or of the renters among the
\* agents as, in rank order: the terms of totalUtilityOwners and
\* totalUtilityRenters.
TenureUtilities(as, owner) ==
    LET of == SelectSeq(as, LAMBDA a : a.isOwner = owner)
    IN  [n \in DOMAIN of |-> Utility(of[n])]

RECURSIVE Product(_, _, _)
\* a * fs[i] * ... * fs[Len(fs)], each partial product computed once.
Product(a, fs, i) ==
    IF i > Len(fs) THEN a
    ELSE [a1 \in {Times(a, fs[i])} |-> Product(a1, fs, i + 1)][Times(a, fs[i])]

\* u is NaN: the logarithm of a negative consumption, or, with beta = 0,
\* 0 * log(0).
UtilityIsNaN(u, beta) ==
    u.c_young < 0 \/ u.c_old < 0 \/ (beta[1] = 0 /\ u.c_old = 0)

\* u is a finite number: neither NaN nor -Infinity, the logarithm of 0.
UtilityIsFinite(u, beta) ==
    u.c_young > 0 /\ u.c_old >= 0 /\ (beta[1] > 0 => u.c_old > 0)

\* The order of the utilities that are not NaN is the order of
\*   exp(u)^d * E_DEN^(ALPHA * d) = c_young^d * c_old^n * e^(ALPHA * d),
\* beta = n / d, e = E_NUM for an owner and E_DEN for a renter; it is 0 for
\* the utility -Infinity.
UtilityKey(u, beta) ==
    Product(<<1>>,
            Factors(u.c_young, u.c_old, IF u.house THEN E_NUM ELSE E_DEN, beta),
            1)

RECURSIVE UtilityKeys(_, _, _)
\* The keys of the first n utilities of us.
UtilityKeys(us, beta, n) ==
    IF n = 0 THEN <<>>
    ELSE Append(UtilityKeys(us, beta, n - 1), UtilityKey(us[n], beta))

\* The place utility n takes when the utilities are sorted ascending by
\* (a, b) => a - b; the sort is stable.
UtilityRank(keys, n) ==
    1 + Cardinality({m \in DOMAIN keys : Greater(keys[n], keys[m])})
      + Cardinality({m \in DOMAIN keys : m < n /\ keys[m] = keys[n]})

\* agentUtilities[index] after agentUtilities.sort((a, b) => a - b).
SortedUtilityAt(us, keys, index) ==
    us[CHOOSE n \in DOMAIN us : UtilityRank(keys, n) = index + 1]

\* Math.floor(q * AGENTS_COUNT) for the quartile q = quarter / 4.
PercentileIndex(quarter) == (quarter * AGENTS_COUNT) \div 4

\* What the percentile fields hold when some utility is NaN: a - b is then
\* NaN for some pairs, the comparator is not consistent and the order of
\* the sorted array is left to the implementation.
Unordered == [unordered |-> TRUE]

\* utilityP25, utilityMedian and utilityP75 of the utilities us.
UtilityPercentiles(us, beta) ==
    IF \E n \in DOMAIN us : UtilityIsNaN(us[n], beta)
    THEN [utilityP25 |-> Unordered, utilityMedian |-> Unordered,
          utilityP75 |-> Unordered]
    ELSE [keys \in {UtilityKeys(us, beta, Len(us))} |->
             [utilityP25 |-> SortedUtilityAt(us, keys, PercentileIndex(1)),
              utilityMedian |-> SortedUtilityAt(us, keys, PercentileIndex(2)),
              utilityP75 |-> SortedUtilityAt(us, keys, PercentileIndex(3))]
         ][UtilityKeys(us, beta, Len(us))]

\* The value NaN.
NaN == [nan |-> TRUE]

\* Mutant of TenureMean: an empty tenure group reports the number 0, the
\* empty sum.
TenureMeanOrZero(us) ==
    IF Len(us) > 0 THEN [total |-> us, count |-> Len(us)]
    ELSE [total |-> <<>>, count |-> 1]

\* ownerCount > 0 ? totalUtilityOwners / ownerCount : NaN, and the same for
\* the renters; a mean is kept as its terms and their number.
TenureMean(us) ==
    IF Len(us) > 0 THEN [total |-> us, count |-> Len(us)] ELSE NaN

\* The record results.push appends for generation period; ownerCount is the
\* aggregator's local counter behind ownershipRate.  The record has no
\* field for the incomes of the households or for their percentiles.
GenerationResult(p, period, as, P_t) ==
    [time |-> period,
     ownerCount |-> OwnerCount(as),
     ownershipRate |-> <<OwnerCount(as), AGENTS_COUNT>>,
     avgUtilityOwners |-> TenureMean(TenureUtilities(as, TRUE)),
     avgUtilityRenters |-> TenureMean(TenureUtilities(as, FALSE)),
     housePrice |-> P_t,
     population |-> Pop(p, period),
     housingStock |-> Housing(p, period)]
        @@ UtilityPercentiles([n \in DOMAIN as |-> Utility(as[n])], p.beta)

\* Mutant of Aggregate: the record is put in front of the earlier ones
\* (results.unshift).
AggregateInFront ==
    /\ pc = "aggregate"
    /\ t < GENERATIONS
    /\ \E cs \in {CrossSection(params, t, productivities, prices[t + 2])} :
       \E ranked \in {SortAgents(cs)} :
       \E as \in {[n \in 1..AGENTS_COUNT |->
                    Allocate(ranked[n], n - 1, HousesAvailable(params, t),
                             prices[t + 1], prices[t + 2], params.beta)]} :
           /\ agents' = as
           /\ results' = <<GenerationResult(params, t, as, prices[t + 1])>>
                            \o results
    /\ t' = t + 1
    /\ UNCHANGED <<params, call, firstResults, pc, productivities, prices,
                   newPrices, iter, maxDiff, cross, wtps, housesAvailable,
                   newPrice>>

\* Mutant of Aggregate: the WTP is not calculated again, the aggregator
\* ranks the households by the WTPs the solver's last pass left.
AggregateReusingSolver ==
    /\ pc = "aggregate"
    /\ t < GENERATIONS
    /\ \E cs \in {[n \in 1..AGENTS_COUNT |->
                    [i |-> n - 1,
                     y |-> Income(params, t, productivities, n),
                     wtp |-> cross[n].wtp]]} :
       \E ranked \in {SortAgents(cs)} :
       \E as \in {[n \in 1..AGENTS_COUNT |->
                    Allocate(ranked[n], n - 1, HousesAvailable(params, t),
                             prices[t + 1], prices[t + 2], params.beta)]} :
           /\ agents' = as
           /\ results' = Append(results,
                            GenerationResult(params, t, as, prices[t + 1]))
    /\ t' = t + 1
    /\ UNCHANGED <<params, call, firstResults, pc, productivities, prices,
                   newPrices, iter, maxDiff, cross, wtps, housesAvailable,
                   newPrice>>

\* One pass of the aggregator's loop: the record of generation t.
Aggregate ==
    /\ pc = "aggregate"
    /\ t < GENERATIONS
    /\ \E cs \in {CrossSection(params, t, productivities, prices[t + 2])} :
       \E ranked \in {SortAgents(cs)} :
       \E as \in {[n \in 1..AGENTS_COUNT |->
                    Allocate(ranked[n], n - 1, HousesAvailable(params, t),
                             prices[t + 1], prices[t + 2], params.beta)]} :
           /\ agents' = as
           /\ results' = Append(results,
                            GenerationResult(params, t, as, prices[t + 1]))
    /\ t' = t + 1
    /\ UNCHANGED <<params, call, firstResults, pc, productivities, prices,
                   newPrices, iter, maxDiff, cross, wtps, housesAvailable,
                   newPrice>>

\* return results
Return ==
    /\ pc = "aggregate"
    /\ t = GENERATIONS
    /\ pc' = "done"
    /\ UNCHANGED <<params, call, firstResults, productivities, prices,
                   newPrices, iter, maxDiff, t, cross, wtps, housesAvailable,
                   newPrice, agents, results>>

\* The caller invokes simulate once more with the same configuration.
InvokeAgain ==
    /\ pc = "done"
    /\ call = 1
    /\ firstResults' = results
    /\ call' = 2
    /\ pc' = "start"
    /\ UNCHANGED <<params, productivities, prices, newPrices, iter, maxDiff,
                   t, cross, wtps, housesAvailable, newPrice, agents, results>>

Next ==
    \/ Start
    \/ BeginIteration
    \/ SolvePeriod
    \/ Converged
    \/ NextIteration
    \/ BudgetExhausted
    \/ Aggregate
    \/ Return
    \/ InvokeAgain

Spec == Init /\ [][Next]_vars

\* simulate is one synchronous call: a step that can be taken is taken.
FairSpec == Spec /\ WF_vars(Next)

\* ------------------------------------------------------------ the claims
\* A period of the horizon has just been priced by the solver.
Priced == pc = "period" /\ t > 0
\* The period the solver priced last.
PricedPeriod == t - 1
\* A generation has just been aggregated.
Aggregated == pc \in {"aggregate", "done"} /\ results # <<>>
\* Its record.
LastResult == results[Len(results)]

\* C1: every WTP the bisection produces, in a solver pass and in the
\* aggregator's pass alike, lies in [0, y], where y = A_t * a_i is the
\* household's income of the period.
C1_WtpWithinIncome ==
    /\ \A n \in DOMAIN cross : 0 <= cross[n].wtp /\ cross[n].wtp <= cross[n].y
    /\ \A n \in DOMAIN agents : 0 <= agents[n].wtp /\ agents[n].wtp <= agents[n].y
    /\ Priced => \A n \in DOMAIN cross :
          cross[n].y = Tech(params, PricedPeriod) * productivities[n]
    /\ Aggregated => \A n \in DOMAIN agents :
          agents[n].y = Tech(params, LastResult.time) * productivities[agents[n].i + 1]

\* Both passes have run, and some household bids strictly between 0 and y.
C1_Witness ==
    /\ Aggregated
    /\ iter > 1
    /\ \E n \in DOMAIN cross : 0 < cross[n].wtp /\ cross[n].wtp < cross[n].y
    /\ \E n \in DOMAIN agents : 0 < agents[n].wtp /\ agents[n].wtp < agents[n].y

\* C2: the price reported for a generation (housePrice = prices[t]) is
\* non-negative and is one of the WTPs the aggregator recomputes for it.
C2_ReportedPriceIsAWtp ==
    Aggregated =>
        /\ LastResult.housePrice >= 0
        /\ \E n \in DOMAIN agents : agents[n].wtp = LastResult.housePrice

\* C3: the owners of a reported generation number at most
\* floor(min(1, H_t / N_t) * M), hence at most M: count <= M, and
\* count / M <= H_t / N_t when H_t < N_t.
C3_OwnersWithinSupply ==
    \A g \in DOMAIN results :
        LET f == SupplyFraction(params, results[g].time)
        IN  /\ results[g].ownerCount <= AGENTS_COUNT
            /\ (f[2] > 0 /\ f[1] < f[2]) =>
                  results[g].ownerCount * f[2] <= AGENTS_COUNT * f[1]
            /\ g = Len(results) /\ pc \in {"aggregate", "done"} =>
                  results[g].ownerCount = Cardinality({n \in DOMAIN agents : agents[n].isOwner})

\* A generation in which some but not all households own.
C3_Witness ==
    /\ Aggregated
    /\ 0 < LastResult.ownerCount
    /\ LastResult.ownerCount < AGENTS_COUNT
    /\ \E n \in DOMAIN agents : ~agents[n].isOwner

\* H_t >= N_t in the period
FullSupply(period) ==
    LET f == SupplyFraction(params, period) IN f[2] > 0 /\ f[1] >= f[2]

\* C4: whenever H_t >= N_t, the market clearer's price of the period is the
\* lowest WTP of its cross-section, and all M households of the generation own.
C4_FullSupply ==
    /\ (Priced /\ FullSupply(PricedPeriod)) =>
          /\ \E n \in DOMAIN cross : cross[n].wtp = newPrice
          /\ \A n \in DOMAIN cross : cross[n].wtp >= newPrice
    /\ (Aggregated /\ FullSupply(LastResult.time)) =>
          /\ LastResult.ownerCount = AGENTS_COUNT
          /\ LastResult.ownershipRate = <<AGENTS_COUNT, AGENTS_COUNT>>
          /\ \A n \in DOMAIN agents : agents[n].isOwner

\* H_t >= N_t in the period the solver priced last and in the generation
\* aggregated last, with unequal WTPs.
C4_Witness ==
    /\ Aggregated
    /\ FullSupply(LastResult.time)
    /\ cross # <<>>
    /\ FullSupply(PricedPeriod)
    /\ \E n, m \in DOMAIN cross : cross[n].wtp < cross[m].wtp

\* s is the sequence c put in descending order.
IsDescendingOrderOf(s, c) ==
    /\ Len(s) = Len(c)
    /\ \A n \in 1..(Len(s) - 1) : s[n] >= s[n + 1]
    /\ \A v \in {c[n] : n \in DOMAIN c} \cup {s[n] : n \in DOMAIN s} :
          Cardinality({n \in DOMAIN c : c[n] = v})
              = Cardinality({n \in DOMAIN s : s[n] = v})

\* C5: the market clearer sorts the WTPs in descending order and, for
\* 1 <= k <= M units, prices the period at the k-th highest WTP: fewer than k
\* households bid more, at least k bid as much.  The aggregator makes
\* exactly the k households ranked first the owners.
C5_MarketClearer ==
    /\ Priced =>
          /\ IsDescendingOrderOf(wtps, [n \in DOMAIN cross |-> cross[n].wtp])
          /\ (1 <= housesAvailable /\ housesAvailable <= AGENTS_COUNT) =>
                /\ newPrice = wtps[housesAvailable]
                /\ Cardinality({n \in DOMAIN cross : cross[n].wtp > newPrice})
                      < housesAvailable
                /\ Cardinality({n \in DOMAIN cross : cross[n].wtp >= newPrice})
                      >= housesAvailable
    /\ Aggregated =>
          LET k == HousesAvailable(params, LastResult.time)
          IN  /\ \A n \in 1..(Len(agents) - 1) : agents[n].wtp >= agents[n + 1].wtp
              /\ (1 <= k /\ k <= AGENTS_COUNT) =>
                    /\ \A n \in DOMAIN agents : agents[n].isOwner <=> n <= k
                    /\ LastResult.ownerCount = k

\* Some but not all units, and the bids at ranks k and k + 1 differ, in the
\* solver's period and in the aggregated generation.
C5_Witness ==
    /\ Aggregated
    /\ cross # <<>>
    /\ 1 <= housesAvailable
    /\ housesAvailable < AGENTS_COUNT
    /\ wtps[housesAvailable] > wtps[housesAvailable + 1]
    /\ \E n \in 1..(Len(agents) - 1) :
          agents[n].isOwner /\ ~agents[n + 1].isOwner
              /\ agents[n].wtp > agents[n + 1].wtp

\* C6: with k = 0 units the market clearer proposes the price 0, and the
\* aggregator flags no household as owner.
C6_NoUnits ==
    /\ (Priced /\ housesAvailable = 0) => newPrice = 0
    /\ (Aggregated /\ HousesAvailable(params, LastResult.time) = 0) =>
          /\ LastResult.ownerCount = 0
          /\ \A n \in DOMAIN agents : ~agents[n].isOwner

\* No unit in the solver's last period and in the aggregated generation,
\* while the households do bid.
C6_Witness ==
    /\ Aggregated
    /\ HousesAvailable(params, LastResult.time) = 0
    /\ cross # <<>>
    /\ housesAvailable = 0
    /\ newPrice = 0
    /\ wtps[1] > 0
    /\ agents[1].wtp > 0

\* The price the market clearer sets among the descending WTPs w when the
\* housing stock is H and the population N.
PriceAtStock(w, H, N) == ClearingPrice(w, Units(<<H, N>>))

\* The prices of the WTPs of the period priced last at every stock 0..N + 1,
\* N the population of the period.
PricesByStock ==
    LET N == Pop(params, PricedPeriod)
    IN  [H \in 0..(N + 1) |-> PriceAtStock(wtps, H, N)]

\* C7, as claimed: for the same WTPs and population, a strictly larger
\* housing stock never gives a higher clearing price.
C7_PriceNonIncreasingInStock ==
    Priced =>
        \E price \in {PricesByStock} :
            \A H1, H2 \in DOMAIN price : H1 < H2 => price[H2] <= price[H1]

\* C7, amended: the same, provided the smaller stock already yields at
\* least one unit (k >= 1); from k = 0, where the price is 0, a larger stock
\* raises the price to the highest WTP.
C7_PriceNonIncreasingFromOneUnit ==
    Priced =>
        \E price \in {PricesByStock} :
            \A H1, H2 \in DOMAIN price :
                (H1 < H2 /\ Units(<<H1, Pop(params, PricedPeriod)>>) >= 1)
                    => price[H2] <= price[H1]

\* Unequal WTPs, and a population large enough for every unit count
\* 0..M to occur as the stock grows.
C7_Witness ==
    /\ Priced
    /\ wtps[1] > wtps[AGENTS_COUNT]
    /\ wtps[AGENTS_COUNT] > 0
    /\ Pop(params, PricedPeriod) >= AGENTS_COUNT
    /\ housesAvailable >= 1

\* C8: of two households of a period, the one with the larger income has
\* a WTP at least as large.
C8_WtpMonotoneInIncome ==
    /\ \A n, m \in DOMAIN cross :
          cross[n].y > cross[m].y => cross[n].wtp >= cross[m].wtp
    /\ \A n, m \in DOMAIN agents :
          agents[n].y > agents[m].y => agents[n].wtp >= agents[m].wtp

\* C9: the second invocation with the same configuration starts from
\* nothing the first one left and returns the same results.
C9_Deterministic ==
    /\ (pc = "iterate" /\ iter = 0) =>
          /\ prices = [n \in 1..SIMULATION_STEPS |-> InitialPrice(params)]
          /\ productivities = Productivities(params.inequality)
          /\ results = <<>>
    /\ (pc = "done" /\ call = 2) => results = firstResults

\* The second invocation has returned, after a solve that moved the prices.
C9_Witness ==
    /\ pc = "done"
    /\ call = 2
    /\ Len(results) = GENERATIONS
    /\ firstResults # <<>>
    /\ prices # [n \in 1..SIMULATION_STEPS |-> InitialPrice(params)]

\* The outer loop is at the end of its last pass without having converged.
BudgetSpent ==
    /\ pc = "period"
    /\ t = SIMULATION_STEPS - 1
    /\ iter + 1 = MAX_ITER
    /\ maxDiff >= CONVERGENCE_TOL

\* C10: simulate terminates: a call that has started returns; the outer
\* loop never runs more than MAX_ITER passes; a budget spent without
\* convergence raises nothing, the path computed last becomes the price
\* path, and the results report it.
C10_Terminates ==
    /\ [](iter <= MAX_ITER)
    /\ (pc = "start") ~> (pc = "done")
    /\ [][BudgetSpent => (pc' = "aggregate" /\ prices' = newPrices)]_vars
    /\ [](pc = "done" =>
            /\ Len(results) = GENERATIONS
            /\ \A g \in DOMAIN results : results[g].housePrice = prices[g])

\* simulate has returned after spending the budget without converging.
C10_Witness ==
    /\ pc = "done"
    /\ iter = MAX_ITER
    /\ maxDiff >= CONVERGENCE_TOL
    /\ Len(results) = GENERATIONS

\* simulate has returned all its records.
Returned == pc = "done" /\ Len(results) = GENERATIONS

\* The ownership rate <<owners, households>> a is below the rate b.
RateBelow(a, b) == a[1] * b[2] < b[1] * a[2]

\* C11: with the default parameters the reported ownership rate strictly
\* decreases from generation 0 to generation 1 to generation 2.
C11_DefaultRatesDecrease ==
    (Returned /\ params = DEFAULT_PARAMS) =>
        /\ RateBelow(results[2].ownershipRate, results[1].ownershipRate)
        /\ RateBelow(results[3].ownershipRate, results[2].ownershipRate)

\* The default run has returned: everybody owns in generation 0, and some
\* households still own in generation 2.
C11_Witness ==
    /\ Returned
    /\ params = DEFAULT_PARAMS
    /\ results[1].ownershipRate = <<AGENTS_COUNT, AGENTS_COUNT>>
    /\ results[3].ownerCount > 0

\* Housing grows at the rate of the population from equal initial stocks.
Balanced(p) ==
    /\ p.housingGrowthRate = p.popGrowthRate
    /\ p.initialHousing = p.initialPop

\* C12: when housing grows at the rate of the population (initial housing
\* equal to the initial population), the reported ownership rate is the
\* same in generations 0, 1 and 2.
C12_BalancedRatesFlat ==
    (Returned /\ Balanced(params)) =>
        \A g, h \in DOMAIN results :
            results[g].ownershipRate = results[h].ownershipRate

\* A balanced run with growing stocks has returned.
C12_Witness ==
    /\ Returned
    /\ params = BalancedParams
    /\ results[3].population > results[1].population
    /\ results[3].housingStock > results[1].housingStock

\* C13: with sigma near zero (here 0, all incomes equal), in every reported
\* generation either nearly all households own or none does.
C13_HomogeneousNoSplit ==
    (Returned /\ params.inequality = 0) =>
        \A g \in DOMAIN results :
            \/ results[g].ownerCount = 0
            \/ results[g].ownerCount >= AGENTS_COUNT - 1

\* The configuration is ill-posed: sigma <= 0, beta <= 0 or an initial
\* stock <= 0.
IllPosed(p) ==
    \/ p.inequality <= 0
    \/ p.beta[1] <= 0
    \/ p.initialTech <= 0
    \/ p.initialPop <= 0
    \/ p.initialHousing <= 0

\* C14: an ill-posed configuration is rejected before any result is
\* produced: simulate never reaches its aggregator with one, and pushes no
\* record.
C14_IllPosedRejected ==
    IllPosed(params) => (pc \notin {"aggregate", "done"} /\ results = <<>>)

\* C15: in a generation without owners avgUtilityOwners is the sentinel NaN
\* set by the guard, and in a generation without renters avgUtilityRenters
\* is; a tenure mean that is not the sentinel divides by the positive number
\* of its households.
C15_EmptyTenureIsSentinel ==
    \A g \in DOMAIN results :
        LET r == results[g]
        IN  /\ r.ownerCount = 0 <=> r.avgUtilityOwners = NaN
            /\ r.ownerCount = AGENTS_COUNT <=> r.avgUtilityRenters = NaN
            /\ r.avgUtilityOwners # NaN =>
                  r.avgUtilityOwners.count = r.ownerCount
            /\ r.avgUtilityRenters # NaN =>
                  r.avgUtilityRenters.count = AGENTS_COUNT - r.ownerCount

\* simulate has returned a generation without owners, all renting.
C15_Witness ==
    /\ Returned
    /\ \E g \in DOMAIN results :
          /\ results[g].ownerCount = 0
          /\ results[g].avgUtilityOwners = NaN
          /\ results[g].avgUtilityRenters # NaN
          /\ results[g].avgUtilityRenters.count = AGENTS_COUNT

\* C17: simulate returns one record per reported generation t = 0, 1, 2, in
\* increasing time order; the record at position t carries time = t and the
\* population, the housing stock and the price of period t.
C17_OneRecordPerGeneration ==
    /\ \A g \in DOMAIN results :
          /\ results[g].time = g - 1
          /\ results[g].population = Pop(params, g - 1)
          /\ results[g].housingStock = Housing(params, g - 1)
          /\ results[g].housePrice = prices[g]
    /\ pc = "aggregate" => Len(results) = t
    /\ pc = "done" => Len(results) = GENERATIONS

\* simulate has returned records whose population, stock and price differ
\* from one generation to the next.
C17_Witness ==
    /\ Returned
    /\ results[1].population < results[2].population
    /\ results[2].population < results[3].population
    /\ results[1].housingStock < results[2].housingStock
    /\ results[1].housePrice # results[2].housePrice
    /\ results[2].housePrice # results[3].housePrice

\* C18: every record carries the per-household (income, ownership flag)
\* pairs of its generation, one per household, the flags agreeing with the
\* record's ownership rate.
C18_RecordsCarryHouseholds ==
    \A g \in DOMAIN results :
        /\ "incomeDistribution" \in DOMAIN results[g]
        /\ Len(results[g].incomeDistribution) = AGENTS_COUNT
        /\ Cardinality({n \in DOMAIN results[g].incomeDistribution :
                           results[g].incomeDistribution[n].buys})
              = results[g].ownershipRate[1]

\* The b-th trial price of a bisection over [0, y] whose upper end has
\* come down at every step so far.
TrialPrice(y, b) == y \div Pow(2, b)

\* At the price P owning is affordable and strictly preferred to renting.
Preferred(y, P, Pn, beta) ==
    LET s_own == SOwn(y, P, Pn, beta)
        s_rent == SRent(y, beta)
    IN  /\ y - P - s_own > 0
        /\ OwnBetter(y - P - s_own, s_own + Pn, y - s_rent, s_rent, beta)

\* Owning is preferred at none of the trial prices.
NeverPreferred(y, Pn, beta) ==
    \A b \in 1..BISECT_STEPS : ~Preferred(y, TrialPrice(y, b), Pn, beta)

\* C16: a household for which owning is strictly preferred at no trial
\* price of the bisection, unaffordable trial prices included, gets the
\* WTP 0, in the solver and in the aggregator.
C16_NeverPreferredZeroWtp ==
    /\ Priced => \A n \in DOMAIN cross :
          NeverPreferred(cross[n].y, prices[PricedPeriod + 2], params.beta)
              => cross[n].wtp = 0
    /\ Aggregated => \A n \in DOMAIN agents :
          NeverPreferred(agents[n].y, prices[LastResult.time + 2], params.beta)
              => agents[n].wtp = 0

\* A household with income, positive trial prices and a positive future
\* price to bid against, for which owning is never preferred.
C16_Witness ==
    /\ Priced
    /\ prices[PricedPeriod + 2] > 0
    /\ \E n \in DOMAIN cross :
          /\ TrialPrice(cross[n].y, BISECT_STEPS) > 0
          /\ NeverPreferred(cross[n].y, prices[PricedPeriod + 2], params.beta)
          /\ cross[n].wtp = 0

\* C19: a non-terminal period's updated price is the damped blend of its
\* old price and the price the market clearer proposes for the WTPs solved
\* against the old price of the next period; the old path stays as it stood
\* at the start of the iteration until the pass over the periods is over.
C19_DampedFromSnapshot ==
    /\ [](Priced =>
            /\ newPrices[PricedPeriod + 1] = Damped(prices[PricedPeriod + 1], newPrice)
            /\ newPrice = ClearingPrice(wtps, housesAvailable)
            /\ \A n \in DOMAIN cross :
                  cross[n].wtp = WTP(cross[n].y, prices[PricedPeriod + 2], params.beta))
    /\ [][(pc = "period" /\ pc' = "period") =>
            /\ prices' = prices
            /\ \A n \in DOMAIN newPrices : n # t + 1 => newPrices'[n] = newPrices[n]]_vars

\* The last non-terminal period has been priced against the old terminal
\* price while the terminal price of this iteration is already another.
C19_Witness ==
    /\ Priced
    /\ iter >= 1
    /\ PricedPeriod = SIMULATION_STEPS - 2
    /\ newPrices[SIMULATION_STEPS] # prices[SIMULATION_STEPS]
    /\ newPrice # prices[PricedPeriod + 1]
    /\ \E n \in DOMAIN cross :
          cross[n].wtp # WTP(cross[n].y, newPrices[PricedPeriod + 2], params.beta)

\* The pass over the periods of an outer iteration is over.
EndOfPass == pc = "period" /\ t = SIMULATION_STEPS - 1

\* The largest |newPrices[n] - prices[n]| over the periods ns.
LargestChange(ns) ==
    LET changes == {Abs(newPrices[n] - prices[n]) : n \in ns}
    IN  CHOOSE c \in changes : \A d \in changes : c >= d

\* C20: at the end of the pass maxDiff is the largest absolute price change
\* over all the periods of the horizon, the terminal period included, and
\* the solver stops early exactly when it is below the tolerance.
C20_TracksEveryPeriod ==
    EndOfPass =>
        /\ maxDiff = LargestChange(1..SIMULATION_STEPS)
        /\ ENABLED Converged <=> LargestChange(1..SIMULATION_STEPS) < CONVERGENCE_TOL

\* C21: throughout the pass of an outer iteration the terminal period's new
\* price is the previous iteration's price of the period before it times
\* (1 + techGrowthRate), undamped, and the terminal period is never the
\* period the WTP solver and the market clearer price.
C21_TerminalExtrapolated ==
    pc = "period" =>
        /\ newPrices[SIMULATION_STEPS]
              = (prices[SIMULATION_STEPS - 1]
                    * (params.techGrowthRate[2] + params.techGrowthRate[1]))
                        \div params.techGrowthRate[2]
        /\ t <= SIMULATION_STEPS - 1
        /\ Priced => PricedPeriod < SIMULATION_STEPS - 1

\* A later iteration's pass is over; the extrapolated terminal price is
\* neither the old terminal price nor its blend with the extrapolation, and
\* technology grows.
C21_Witness ==
    /\ EndOfPass
    /\ iter >= 1
    /\ params.techGrowthRate[1] > 0
    /\ newPrices[SIMULATION_STEPS] # prices[SIMULATION_STEPS]
    /\ newPrices[SIMULATION_STEPS]
          # (prices[SIMULATION_STEPS] + newPrices[SIMULATION_STEPS]) \div 2
    /\ newPrices[SIMULATION_STEPS] > prices[SIMULATION_STEPS - 1]

\* C22: the productivity draws are generated once, at the start of a run,
\* and no later step changes them: the cross-section of every period of
\* every outer iteration and of every aggregated generation is the same
\* AGENTS_COUNT draws, each times the period's own multiplier A_t.
C22_DrawsFixed ==
    /\ [][pc # "start" => productivities' = productivities]_vars
    /\ [](pc # "start" => Len(productivities) = AGENTS_COUNT)
    /\ [](Priced => \A n \in DOMAIN cross :
            cross[n].y = Tech(params, PricedPeriod) * productivities[n])
    /\ [](Aggregated => \A n \in DOMAIN agents :
            agents[n].y = Tech(params, LastResult.time)
                              * productivities[agents[n].i + 1])

\* Unequal draws and a growing multiplier: generation 1 or 2 has been
\* aggregated after more than one outer iteration.
C22_Witness ==
    /\ Aggregated
    /\ iter > 1
    /\ LastResult.time >= 1
    /\ productivities[1] < productivities[AGENTS_COUNT]
    /\ Tech(params, LastResult.time) > Tech(params, 0)
    /\ \E n \in DOMAIN cross : cross[n].y # agents[n].y

\* The record r, and the households as when given (<<>> when not), are
\* what the parameters p and the price path pr alone determine for the
\* generation: the draws of p, the WTPs against pr[period + 1], the ranking
\* by them, the allocation at pr[period], pr[period + 1] and its statistics
\* (period t of the path is at index t + 1).
FromFinalPath(r, as, p, pr, period) ==
    \E cs \in {CrossSection(p, period, Productivities(p.inequality), pr[period + 2])} :
    \E ranked \in {SortAgents(cs)} :
    \E final \in {[n \in 1..AGENTS_COUNT |->
                     Allocate(ranked[n], n - 1, HousesAvailable(p, period),
                              pr[period + 1], pr[period + 2], p.beta)]} :
        /\ r = GenerationResult(p, period, final, pr[period + 1])
        /\ as # <<>> => as = final

\* C23: every reported record is the function of the parameters and of the
\* final price path that the aggregator computes from scratch: each
\* household's WTP is the bisection against the final next-period price,
\* and the ranking, the ownership flags and the statistics follow from
\* these; nothing a solver pass left (its WTPs, their order, its unit
\* count, its proposed price) enters.
C23_ResultsFromFinalPath ==
    /\ \A g \in DOMAIN results :
          FromFinalPath(results[g],
                        IF g = Len(results) /\ pc \in {"aggregate", "done"}
                        THEN agents ELSE <<>>,
                        params, prices, g - 1)
    /\ Aggregated => \A n \in DOMAIN agents :
          agents[n].wtp = Bisect(0, agents[n].y, 0, BISECT_STEPS, agents[n].y,
                                 prices[LastResult.time + 2], params.beta)

\* The generation of the period the solver priced last has been aggregated,
\* and the solver's provisional WTPs of that period differ from the
\* recomputed ones.
C23_Witness ==
    /\ Aggregated
    /\ LastResult.time = SIMULATION_STEPS - 2
    /\ 0 < LastResult.ownerCount
    /\ LastResult.ownerCount < AGENTS_COUNT
    /\ \E n \in DOMAIN cross :
          cross[n].wtp # WTP(cross[n].y, prices[LastResult.time + 2], params.beta)

\* The prices the generation aggregated last buys and sells at.
LastP_t == prices[LastResult.time + 1]
LastP_next == prices[LastResult.time + 2]

\* C24: in the aggregator an owner consumes y - P_t - s when young and
\* s + P_next when old, with s = max(0, (beta * (y - P_t) - P_next) / (1 + beta)),
\* and its utility carries the ownership bonus; a renter consumes y - s_rent
\* and s_rent with s_rent = beta * y / (1 + beta), without the bonus.  Young
\* plus old consumption is y - P_t + P_next for an owner and y for a renter.
C24_RealizedConsumption ==
    Aggregated =>
        \A n \in DOMAIN agents :
            LET a == agents[n]
                b == params.beta
                s == IF a.isOwner
                     THEN Max(0, (b[1] * (a.y - LastP_t) - b[2] * LastP_next)
                                    \div (b[1] + b[2]))
                     ELSE (b[1] * a.y) \div (b[1] + b[2])
            IN  /\ a.isOwner =>
                      /\ a.c_young = a.y - LastP_t - s
                      /\ a.c_old = s + LastP_next
                      /\ a.c_young + a.c_old = a.y - LastP_t + LastP_next
                /\ ~a.isOwner =>
                      /\ a.c_young = a.y - s
                      /\ a.c_old = s
                      /\ a.c_young + a.c_old = a.y
                /\ Utility(a).house = a.isOwner
                /\ LastResult.avgUtilityOwners # NaN =>
                      \A m \in DOMAIN LastResult.avgUtilityOwners.total :
                          LastResult.avgUtilityOwners.total[m].house
                /\ LastResult.avgUtilityRenters # NaN =>
                      \A m \in DOMAIN LastResult.avgUtilityRenters.total :
                          ~LastResult.avgUtilityRenters.total[m].house

\* A generation with owners and renters, bought at a positive price and
\* sold at another one, with an owner who saves nothing.
C24_Witness ==
    /\ Aggregated
    /\ LastP_t > 0
    /\ LastP_next > LastP_t
    /\ \E n, m \in DOMAIN agents :
          /\ agents[n].isOwner
          /\ agents[n].c_old = LastP_next
          /\ agents[n].c_young > 0
          /\ ~agents[m].isOwner
          /\ agents[m].c_old > 0

\* The utilities of the households aggregated last, in rank order.
LastUtilities == [n \in DOMAIN agents |-> Utility(agents[n])]

\* u1 < u2, for utilities that are not NaN.
UtilityLess(u1, u2) ==
    Greater(UtilityKey(u2, params.beta), UtilityKey(u1, params.beta))

\* u is the element at index floor(quarter / 4 * M) of the utilities
\* aggregated last, sorted ascending: it is one of them, at most index of
\* them are below it and more than index are not above it.
UtilityNearestRank(u, quarter) ==
    /\ \E n \in DOMAIN LastUtilities : LastUtilities[n] = u
    /\ Cardinality({n \in DOMAIN LastUtilities :
                        UtilityLess(LastUtilities[n], u)})
          <= PercentileIndex(quarter)
    /\ Cardinality({n \in DOMAIN LastUtilities :
                        ~UtilityLess(u, LastUtilities[n])})
          > PercentileIndex(quarter)

\* The same for an income y among the incomes aggregated last.
IncomeNearestRank(y, quarter) ==
    /\ \E n \in DOMAIN agents : agents[n].y = y
    /\ Cardinality({n \in DOMAIN agents : agents[n].y < y})
          <= PercentileIndex(quarter)
    /\ Cardinality({n \in DOMAIN agents : agents[n].y <= y})
          > PercentileIndex(quarter)

\* C25: the record of a generation reports the 25th, 50th and 75th
\* percentiles of the realized utilities and, separately, of the realized
\* incomes, each the element at index floor(q * M) of the values sorted
\* ascending: a value of an actual household, and P25 <= median <= P75.
C25_NearestRankPercentiles ==
    Aggregated =>
        /\ UtilityNearestRank(LastResult.utilityP25, 1)
        /\ UtilityNearestRank(LastResult.utilityMedian, 2)
        /\ UtilityNearestRank(LastResult.utilityP75, 3)
        /\ ~UtilityLess(LastResult.utilityMedian, LastResult.utilityP25)
        /\ ~UtilityLess(LastResult.utilityP75, LastResult.utilityMedian)
        /\ {"incomeP25", "incomeMedian", "incomeP75"} \subseteq DOMAIN LastResult
        /\ IncomeNearestRank(LastResult.incomeP25, 1)
        /\ IncomeNearestRank(LastResult.incomeMedian, 2)
        /\ IncomeNearestRank(LastResult.incomeP75, 3)
        /\ LastResult.incomeP25 <= LastResult.incomeMedian
        /\ LastResult.incomeMedian <= LastResult.incomeP75

\* C26: in every reported generation of a well-posed configuration, whether
\* or not the outer iteration converged, every owner consumes a strictly
\* positive amount when young (y - P_t - s > 0), so its utility is a finite
\* number, every term of the generation's mean utilities is finite and the
\* utility percentiles are numbers.
C26_OwnersConsumeWhenYoung ==
    (Aggregated /\ ~IllPosed(params)) =>
        /\ \A n \in DOMAIN agents :
              agents[n].isOwner =>
                  /\ agents[n].y - LastP_t - (agents[n].c_old - LastP_next) > 0
                  /\ agents[n].c_young > 0
                  /\ UtilityIsFinite(Utility(agents[n]), params.beta)
        /\ LastResult.avgUtilityOwners # NaN =>
              \A m \in DOMAIN LastResult.avgUtilityOwners.total :
                  UtilityIsFinite(LastResult.avgUtilityOwners.total[m],
                                  params.beta)
        /\ LastResult.avgUtilityRenters # NaN =>
              \A m \in DOMAIN LastResult.avgUtilityRenters.total :
                  UtilityIsFinite(LastResult.avgUtilityRenters.total[m],
                                  params.beta)
        /\ LastResult.utilityP25 # Unordered
        /\ LastResult.utilityMedian # Unordered
        /\ LastResult.utilityP75 # Unordered

\* u >= u_rent for the household a, u its realized utility and
\* u_rent = log(y - s_rent) + beta * log(s_rent); no comparison with NaN
\* holds.
NoWorseThanRenting(a, beta) ==
    \E rent \in {[c_young |-> a.y - SRent(a.y, beta),
                  c_old |-> SRent(a.y, beta), house |-> FALSE]} :
        /\ ~UtilityIsNaN(Utility(a), beta)
        /\ ~UtilityIsNaN(rent, beta)
        /\ ~Greater(UtilityKey(rent, beta), UtilityKey(Utility(a), beta))

\* C27: in every reported generation of a well-posed configuration every
\* owner's recomputed WTP is at least the price P_t it pays, and its
\* realized utility is at least its renting utility u_rent.
C27_OwnersWillingToPay ==
    (Aggregated /\ ~IllPosed(params)) =>
        \A n \in DOMAIN agents :
            agents[n].isOwner =>
                /\ agents[n].wtp >= LastP_t
                /\ NoWorseThanRenting(agents[n], params.beta)

\* C28: the ownership rate reported for generation t is exactly
\* floor(min(1, H_t / N_t) * M) / M, with H_t = initialHousing *
\* (1 + housingGrowthRate)^t and N_t = initialPop * (1 + popGrowthRate)^t
\* not both zero: it is M / M when H_t >= N_t, and otherwise the k / M with
\* k * N_t <= M * H_t < (k + 1) * N_t.  Nothing else enters it: not the
\* price path, the number of iterations run, beta, sigma or the technology.
C28_OwnershipRateFromStocks ==
    \A g \in DOMAIN results :
        LET gH == params.housingGrowthRate
            gN == params.popGrowthRate
            period == results[g].time
            \* H_t / N_t = H / N
            H == params.initialHousing * Pow(gH[2] + gH[1], period)
                                       * Pow(gN[2], period)
            N == params.initialPop * Pow(gN[2] + gN[1], period)
                                   * Pow(gH[2], period)
            rate == results[g].ownershipRate
        IN  (H >= 0 /\ N >= 0 /\ H + N > 0) =>
                /\ rate[2] = AGENTS_COUNT
                /\ rate[1] \in 0..AGENTS_COUNT
                /\ H >= N => rate[1] = AGENTS_COUNT
                /\ H < N => /\ rate[1] * N <= AGENTS_COUNT * H
                            /\ AGENTS_COUNT * H < (rate[1] + 1) * N

\* After more than one iteration, a generation after the first whose rate
\* is rounded down from M * H_t / N_t to a number of households strictly
\* between none and all, one of them charged more than its WTP.
C28_Witness ==
    /\ Aggregated
    /\ iter > 1
    /\ LastResult.time > 0
    /\ 0 < LastResult.ownershipRate[1]
    /\ LastResult.ownershipRate[1] < AGENTS_COUNT
    /\ LET f == SupplyFraction(params, LastResult.time)
       IN  LastResult.ownershipRate[1] * f[2] < AGENTS_COUNT * f[1]
    /\ \E n \in DOMAIN agents : agents[n].isOwner /\ agents[n].wtp < LastP_t

\* C29: with initialTech >= 0, initialPop >= 0 and techGrowthRate >= -1,
\* every entry of the price path is non-negative after the initialization
\* and after every outer iteration, and so is every entry of the path an
\* iteration is building.
C29_PricesNonNegative ==
    (/\ params.initialTech >= 0
     /\ params.initialPop >= 0
     /\ params.techGrowthRate[1] + params.techGrowthRate[2] >= 0
     /\ pc # "start") =>
        /\ Len(prices) = SIMULATION_STEPS
        /\ \A n \in DOMAIN prices : prices[n] >= 0
        /\ \A n \in DOMAIN newPrices : newPrices[n] >= 0

\* After an outer iteration the damping has pulled an entry of the path
\* below the initial price, down to one unit above the bound 0, while
\* another entry has risen above the initial price.
C29_Witness ==
    /\ pc # "start"
    /\ iter >= 1
    /\ \E n \in DOMAIN prices :
          prices[n] = 1 /\ prices[n] < InitialPrice(params)
    /\ \E n \in DOMAIN prices : prices[n] > InitialPrice(params)

\* C30: in every reported generation of a well-posed configuration the
\* owners form an upper income set: every owner's income is at least the
\* income of every renter.
C30_OwnersUpperIncomeSet ==
    (Aggregated /\ ~IllPosed(params)) =>
        \A n, m \in DOMAIN agents :
            (agents[n].isOwner /\ ~agents[m].isOwner) =>
                agents[n].y >= agents[m].y

====
